---- MODULE Spec2Model ----
(***************************************************************************)
(* TextGenerator (src/services/llama/generation.py): a client of a remote  *)
(* chat-completion endpoint that owns one aiohttp.ClientSession handle.    *)
(*                                                                         *)
(* State: the handle self._session, the ClientSession objects the instance *)
(* has created (each open or closed), the generate_text coroutines with    *)
(* their position and locals, the exception the last lifecycle operation   *)
(* let escape, and the order of the operations called so far.              *)
(*                                                                         *)
(* Spec     : one caller that awaits every operation before the next.      *)
(* SpecConc : generate_text coroutines scheduled as tasks of one event     *)
(*            loop; a task runs without interruption from one await to the *)
(*            next.                                                        *)
(***************************************************************************)
EXTENDS Integers, Sequences, FiniteSets, TLC

VARIABLES session, sessions, call, raised, history

vars == <<session, sessions, call, raised, history>>

\* ------------------------------------------------------------------ bounds
\* Operations one caller performs on the instance (length of history), Spec.
MaxOps == 5
\* generate_text coroutines scheduled on the event loop, SpecConc.
MaxTasks == 2

Tasks == 1..MaxTasks

\* --------------------------------------------------------------- constants
\* self._session = None
None == 0

\* The fixed fallback string of lines 83 and 90 (transliterated to ASCII).
Fallback == "Izvinite, proizoshla oshibka pri generatsii otveta."

\* config.services.ai_model
Model == "ai_model"

NoResult == "<not returned>"

\* ------------------------------------------------------------------ inputs
Queries == {"price?"}

\* result_data: a str, a JSON-serializable list of str, and a Python set,
\* which json.dumps rejects.  items holds the str itself (kind "str") or the
\* elements.
StrData == [kind |-> "str", items |-> <<"{}">>]
ListData == [kind |-> "list", items |-> <<"a", "b">>]
SetData == [kind |-> "set", items |-> <<"a">>]
NoData == [kind |-> "none", items |-> <<>>]

DataInputs == {StrData, ListData, SetData}

\* What the remote call does once the request is sent: err is the exception
\* the awaited post raises ("none": a response arrives), status the HTTP
\* status, body the shape of the response body, content the value of
\* choices[0].message.content when the body has it.
Ok200 == [err |-> "none", status |-> 200, body |-> "choices", content |-> "Hello"]
Status500 == [err |-> "none", status |-> 500, body |-> "choices", content |-> "Hello"]
ConnError == [err |-> "ClientConnectorError", status |-> 0, body |-> "none", content |-> ""]
Malformed200 == [err |-> "none", status |-> 200, body |-> "malformed", content |-> ""]
NoChoices200 == [err |-> "none", status |-> 200, body |-> "nochoices", content |-> ""]
NoOutcome == [err |-> "none", status |-> 0, body |-> "none", content |-> ""]

Outcomes == {Ok200, Status500, ConnError, Malformed200, NoChoices200}

\* ------------------------------------------------------- python semantics
\* `if self._session` / `if not self._session`: None is falsy, a
\* ClientSession object is truthy whether it is open or closed.
Truthy(s) == s # None

\* `except Exception`: the exception classes the handler of line 88 catches.
\* All that the modelled steps raise derive from Exception.
\* Variant: `except aiohttp.ClientError`.
CatchesClientErrorOnly(e) == e \in {"ClientConnectorError"}

\* `except Exception`
Catches(e) == e \in {"TypeError", "RuntimeError", "ClientConnectorError", "JSONDecodeError", "KeyError"}

\* aiohttp.ClientSession(): a new open session object, appended to the
\* objects the instance created; its identity is its index.
NewSession(ss) == Append(ss, "open")

\* await s.close() for the value s of the handle: on a ClientSession it
\* closes the session (a no-op on a closed one) and raises nothing; None has
\* no close().
SessionClose(ss, s) ==
    IF s = None
    THEN [exc |-> "AttributeError", sessions |-> ss]
    ELSE [exc |-> "none", sessions |-> [ss EXCEPT ![s] = "closed"]]

\* The branch not taken of `if self._session:`.
Skip(ss) == [exc |-> "none", sessions |-> ss]

\* Line 76: the session is created when the handle is falsy.
\* Variant: the guard of line 76 dropped.
LazyCreateAlways(s) == TRUE

\* `if not self._session:`
LazyCreate(s) == ~Truthy(s)

\* json.dumps(list of str, ensure_ascii=False) as a sequence of tokens.
RECURSIVE JsonItems(_)
JsonItems(items) ==
    IF items = <<>> THEN <<>>
    ELSE IF Len(items) = 1 THEN <<"\"", items[1], "\"">>
    ELSE <<"\"", items[1], "\"", ", ">> \o JsonItems(Tail(items))

JsonDumps(d) ==
    IF d.kind = "list"
    THEN [exc |-> "none", text |-> <<"[">> \o JsonItems(d.items) \o <<"]">>]
    ELSE [exc |-> "TypeError", text |-> <<>>]

\* Lines 67-68: a str is kept, anything else goes through json.dumps.
Normalize(d) ==
    IF d.kind = "str" THEN [exc |-> "none", text |-> d.items] ELSE JsonDumps(d)

get_system_prompt(text) == <<"<template>", " Vot dannye dlya analiza (v formate JSON): ">> \o text

prepare_payload(q, text) ==
    [model |-> Model,
     messages |-> << [role |-> "system", content |-> get_system_prompt(text)],
                     [role |-> "user", content |-> <<"Zapros: ", q, ".">>] >>]

NoPayload == [model |-> Model, messages |-> <<>>]

\* ------------------------------------------------------------------- state
\* A generate_text coroutine: its position, its arguments, what the endpoint
\* does for it, and what it has done so far.
IdleCall ==
    [pc |-> "idle", query |-> "", data |-> NoData, endpoint |-> NoOutcome,
     spawnedAbsent |-> FALSE, payload |-> NoPayload,
     posts |-> 0, postedOn |-> None, postedOpen |-> FALSE,
     response |-> NoOutcome, received |-> FALSE,
     textRead |-> FALSE, jsonParsed |-> FALSE,
     errorLogs |-> 0, result |-> NoResult, exc |-> "none"]

Init ==
    /\ session = None
    /\ sessions = <<>>
    /\ call = [t \in Tasks |-> IdleCall]
    /\ raised = "none"
    /\ history = <<>>

\* No generate_text coroutine is suspended or scheduled.
Quiet == \A t \in Tasks : call[t].pc \in {"idle", "returned"}

OpenSessions == {i \in DOMAIN sessions : sessions[i] = "open"}

\* ------------------------------------------------------------- operations
\* async def __aenter__
aenter ==
    /\ Quiet
    /\ Len(history) < MaxOps
    /\ sessions' = NewSession(sessions)
    /\ session' = Len(sessions) + 1
    /\ raised' = "none"
    /\ history' = Append(history, "enter")
    /\ UNCHANGED call

\* async def __aexit__
\* Variant: the reference is dropped and the session not closed.
aexitLeak ==
    /\ Quiet
    /\ Len(history) < MaxOps
    /\ sessions' = sessions
    /\ session' = None
    /\ raised' = "none"
    /\ history' = Append(history, "exit")
    /\ UNCHANGED call

\* Lines 57-58: the session is closed, the handle keeps referring to it.
aexit ==
    /\ Quiet
    /\ Len(history) < MaxOps
    /\ LET r == IF Truthy(session) THEN SessionClose(sessions, session) ELSE Skip(sessions)
       IN  /\ sessions' = r.sessions
           /\ raised' = r.exc
    /\ session' = session
    /\ history' = Append(history, "exit")
    /\ UNCHANGED call

\* async def close
\* Variant: line 173 left out.
closeKeepRef ==
    /\ Quiet
    /\ Len(history) < MaxOps
    /\ LET r == IF Truthy(session) THEN SessionClose(sessions, session) ELSE Skip(sessions)
       IN  /\ sessions' = r.sessions
           /\ raised' = r.exc
    /\ session' = session
    /\ history' = Append(history, "close")
    /\ UNCHANGED call

\* Lines 171-173.
close ==
    /\ Quiet
    /\ Len(history) < MaxOps
    /\ LET r == IF Truthy(session) THEN SessionClose(sessions, session) ELSE Skip(sessions)
       IN  /\ sessions' = r.sessions
           /\ raised' = r.exc
    /\ session' = IF Truthy(session) THEN None ELSE session
    /\ history' = Append(history, "close")
    /\ UNCHANGED call

\* The handler of lines 88-90 applied to exception e raised inside the try:
\* a caught exception is logged and becomes the fallback string, any other
\* leaves generate_text.
Contain(c, e) ==
    IF Catches(e)
    THEN [c EXCEPT !.pc = "returned", !.errorLogs = @ + 1, !.result = Fallback]
    ELSE [c EXCEPT !.pc = "returned", !.exc = e]

\* Lines 65-79, from the entry of generate_text to the await of the POST:
\* normalization, payload, the lazy creation of the session, and the call of
\* self._session.post.  A closed session makes post raise RuntimeError
\* before anything is sent.
start(t, q, d, o) ==
    LET c0 == [IdleCall EXCEPT !.query = q, !.data = d, !.endpoint = o,
                               !.spawnedAbsent = call[t].spawnedAbsent]
        norm == Normalize(d)
        create == LazyCreate(session)
        ss == IF create THEN NewSession(sessions) ELSE sessions
        s == IF create THEN Len(sessions) + 1 ELSE session
        c1 == [c0 EXCEPT !.payload = prepare_payload(q, norm.text),
                         !.posts = @ + 1, !.postedOn = s,
                         !.postedOpen = (ss[s] = "open")]
    IN  /\ history' = Append(history, "gen")
        /\ UNCHANGED raised
        /\ IF norm.exc # "none"
           THEN /\ call' = [call EXCEPT ![t] = Contain(c0, norm.exc)]
                /\ UNCHANGED <<session, sessions>>
           ELSE /\ session' = s
                /\ sessions' = ss
                /\ call' = [call EXCEPT ![t] =
                              IF ss[s] = "closed"
                              THEN Contain(c1, "RuntimeError")
                              ELSE [c1 EXCEPT !.pc = "awaitingResponse"]]

\* Lines 79-86 once the awaited POST has completed with outcome o.
\* Variant: the status check of line 80 left out.
HandleResponseParseFirst(c, o) ==
    IF o.err # "none" THEN Contain(c, o.err)
    ELSE IF o.body = "malformed" THEN Contain([c EXCEPT !.jsonParsed = TRUE], "JSONDecodeError")
    ELSE IF o.body = "nochoices" THEN Contain([c EXCEPT !.jsonParsed = TRUE], "KeyError")
    ELSE [c EXCEPT !.pc = "returned", !.jsonParsed = TRUE, !.result = o.content]

\* Lines 80-86, inside the try of line 65.
HandleResponse(c, o) ==
    IF o.err # "none" THEN Contain(c, o.err)
    ELSE IF o.status # 200
    THEN [c EXCEPT !.pc = "returned", !.textRead = TRUE, !.errorLogs = @ + 1,
                   !.result = Fallback]
    ELSE IF o.body = "malformed" THEN Contain([c EXCEPT !.jsonParsed = TRUE], "JSONDecodeError")
    ELSE IF o.body = "nochoices" THEN Contain([c EXCEPT !.jsonParsed = TRUE], "KeyError")
    ELSE [c EXCEPT !.pc = "returned", !.jsonParsed = TRUE, !.result = o.content]

Delivered(t) == [call[t] EXCEPT !.response = call[t].endpoint, !.received = TRUE]

\* The coroutine resumes from the await of line 79.
\* Variant: a failed request drops the session handle.
resumeResetOnFailure(t) ==
    /\ call[t].pc = "awaitingResponse"
    /\ call' = [call EXCEPT ![t] = HandleResponse(Delivered(t), call[t].endpoint)]
    /\ session' = IF call'[t].result = Fallback THEN None ELSE session
    /\ UNCHANGED <<sessions, raised, history>>

\* Variant: a failed request is posted once more.
resumeRetry(t) ==
    /\ call[t].pc = "awaitingResponse"
    /\ LET c == HandleResponse(Delivered(t), call[t].endpoint)
       IN  call' = [call EXCEPT ![t] =
                      IF c.result = Fallback /\ call[t].posts < 2
                      THEN [call[t] EXCEPT !.posts = @ + 1]
                      ELSE c]
    /\ UNCHANGED <<session, sessions, raised, history>>

\* Lines 79-90 after the await: the response is handled and the call returns.
resume(t) ==
    /\ call[t].pc = "awaitingResponse"
    /\ call' = [call EXCEPT ![t] = HandleResponse(Delivered(t), call[t].endpoint)]
    /\ UNCHANGED <<session, sessions, raised, history>>

\* await generator.generate_text(query, result_data) by the one caller: the
\* coroutine runs at once, up to its first await.
generate_text(q, d, o) ==
    /\ Quiet
    /\ Len(history) < MaxOps
    /\ start(1, q, d, o)

\* ----------------------------------------------------------- event loop
\* asyncio.create_task(generator.generate_text(query, result_data)): the
\* coroutine is scheduled and has not run yet.
create_task(t, q, d, o) ==
    /\ call[t].pc = "idle"
    /\ call' = [call EXCEPT ![t] = [IdleCall EXCEPT !.pc = "scheduled", !.query = q,
                                       !.data = d, !.endpoint = o,
                                       !.spawnedAbsent = ~Truthy(session)]]
    /\ UNCHANGED <<session, sessions, raised, history>>

\* The loop runs a scheduled coroutine up to its first await.
run(t) ==
    /\ call[t].pc = "scheduled"
    /\ start(t, call[t].query, call[t].data, call[t].endpoint)

\* ---------------------------------------------------------- specifications
Next ==
    \/ aenter
    \/ aexit
    \/ close
    \/ \E q \in Queries, d \in DataInputs, o \in Outcomes : generate_text(q, d, o)
    \/ resume(1)

Spec == Init /\ [][Next]_vars

NextConc ==
    \/ \E t \in Tasks, q \in Queries, d \in DataInputs, o \in Outcomes : create_task(t, q, d, o)
    \/ \E t \in Tasks : run(t)
    \/ \E t \in Tasks : resume(t)

SpecConc == Init /\ [][NextConc]_vars

TypeOK ==
    /\ session \in 0..Len(sessions)
    /\ \A i \in DOMAIN sessions : sessions[i] \in {"open", "closed"}
    /\ \A t \in Tasks : call[t].pc \in {"idle", "scheduled", "awaitingResponse", "returned"}
    /\ Len(history) <= MaxOps

\* ------------------------------------------------------------------ claims
Last(h) == h[Len(h)]

Normalizes(d) == Normalize(d).exc = "none"

\* The results generate_text can hand back as a str.
ResultStrings == {Fallback} \cup {o.content : o \in Outcomes}

\* The awaited POST delivered status 200 with choices[0].message.content.
GotContent(c) ==
    c.received /\ c.response.err = "none" /\ c.response.status = 200 /\ c.response.body = "choices"

\* C1: every generate_text call that has returned handed a string back and
\* let no exception out, whatever its data, the outcome of the remote call
\* and the operations that came before it.
C1_ReturnsStringNeverRaises ==
    \A t \in Tasks :
        call[t].pc = "returned" => call[t].exc = "none" /\ call[t].result \in ResultStrings

\* A call made after scope entry and exit, ended by the exception of the
\* closed session, has returned the fallback string.
C1_Witness ==
    /\ history = <<"enter", "exit", "gen">>
    /\ call[1].pc = "returned"
    /\ call[1].posts = 1 /\ ~call[1].postedOpen
    /\ call[1].result = Fallback

\* C2: a generate_text call that follows the exit of an entered scope, with
\* data that normalizes and an endpoint answering 200 with a well-formed
\* body, posts on a fresh open session and returns the content.
C2_CallAfterScopeExitSucceeds ==
    ( /\ Len(history) >= 3
      /\ Last(history) = "gen"
      /\ history[Len(history) - 1] = "exit"
      /\ \E i \in 1..(Len(history) - 2) : history[i] = "enter"
      /\ call[1].pc = "returned"
      /\ Normalizes(call[1].data)
      /\ call[1].endpoint = Ok200 )
    => ( /\ call[1].result = Ok200.content
         /\ call[1].postedOpen
         /\ call[1].postedOn = Len(sessions) )

\* C3: generate_text never calls post on a closed session.
C3_ClosedSessionNeverReused ==
    \A t \in Tasks : call[t].posts > 0 => call[t].postedOpen

\* C4: at most one session created by the instance is open.
C4_AtMostOneOpenSession == Cardinality(OpenSessions) <= 1

\* C5: every close() lets no exception out, leaves the handle absent and
\* the session the handle held closed; a close() that directly follows a
\* close() changes neither the handle nor any session.
C5_CloseIdempotentTotal ==
    [][ history' = Append(history, "close") =>
          /\ raised' = "none"
          /\ session' = None
          /\ (Truthy(session) => sessions'[session] = "closed")
          /\ (history # <<>> /\ Last(history) = "close" =>
                session' = session /\ sessions' = sessions) ]_vars

\* close() on a session that scope exit already closed, then close() again.
C5_Witness ==
    /\ history = <<"enter", "exit", "close", "close">>
    /\ session = None
    /\ sessions = <<"closed">>

\* C6: a returned call's result is the content of the response exactly when
\* the POST delivered status 200 with a body that has the content; in every
\* other case it is the fallback string with an error logged, and the body
\* of a non-200 response was never parsed as JSON.
C6_ResultFromResponse ==
    \A t \in Tasks :
        call[t].pc = "returned" =>
            /\ (GotContent(call[t]) => call[t].result = call[t].response.content)
            /\ (~GotContent(call[t]) => call[t].result = Fallback /\ call[t].errorLogs >= 1)
            /\ (call[t].result # Fallback => GotContent(call[t]))
            /\ (call[t].received /\ call[t].response.err = "none" /\ call[t].response.status # 200
                  => ~call[t].jsonParsed)

\* A status 500 whose body has the shape of a completion: fallback, logged,
\* body read as text and not parsed.
C6_Witness ==
    /\ call[1].pc = "returned"
    /\ call[1].response = Status500
    /\ call[1].result = Fallback
    /\ call[1].errorLogs = 1
    /\ call[1].textRead

\* The operations so far are: scope entry on the fresh instance,
\* generate_text calls, scope exit.
ScopedRun(h) ==
    /\ Len(h) >= 2
    /\ h[1] = "enter"
    /\ Last(h) = "exit"
    /\ \A i \in 2..(Len(h) - 1) : h[i] = "gen"

\* C7: after scope entry on a fresh instance, any generate_text calls and
\* scope exit, no session of the instance is open; and no scope exit, on an
\* open, closed or absent session, lets an exception out.
C7_ScopeExitLeavesNoOpenSession ==
    /\ (ScopedRun(history) => OpenSessions = {})
    /\ (history # <<>> /\ Last(history) = "exit" => raised = "none")

\* A scope within which two calls ran, the last one getting a failure from
\* the endpoint.
C7_Witness ==
    /\ Len(history) = 4
    /\ ScopedRun(history)
    /\ call[1].result = Fallback
    /\ call[1].received
    /\ sessions = <<"closed">>

\* C8: no step of generate_text closes a session, or changes a handle that
\* holds a session; so a call that fails on an open session leaves the
\* handle on that session, still open.
C8_FailureKeepsSession ==
    [][ call' # call =>
          /\ (Truthy(session) => session' = session)
          /\ \A i \in DOMAIN sessions : sessions'[i] = sessions[i] ]_vars

\* A call on the open session of the scope has failed with a non-200 status
\* and the handle still holds that open session.
C8_Witness ==
    /\ history = <<"enter", "gen">>
    /\ call[1].pc = "returned"
    /\ call[1].response = Status500
    /\ call[1].result = Fallback
    /\ session = call[1].postedOn
    /\ sessions[session] = "open"

\* C9: a generate_text call calls post at most once, and exactly once when
\* its data normalizes (the payload is then built).
C9_SinglePost ==
    \A t \in Tasks :
        /\ call[t].posts <= 1
        /\ (call[t].pc \in {"awaitingResponse", "returned"} /\ Normalizes(call[t].data)
              => call[t].posts = 1)

\* A call whose request failed at the transport has returned the fallback
\* after one post.
C9_Witness ==
    /\ call[1].pc = "returned"
    /\ call[1].response = ConnError
    /\ call[1].result = Fallback
    /\ call[1].posts = 1

\* Calls t and u were both scheduled while the handle was absent and both
\* have passed the session check of line 76.
Raced(t, u) ==
    /\ t # u
    /\ call[t].spawnedAbsent /\ call[u].spawnedAbsent
    /\ call[t].posts = 1 /\ call[u].posts = 1

\* C10, as stated: two concurrent calls scheduled before a session exists
\* each create a session.
C10_RaceCreatesTwoSessions ==
    \A t, u \in Tasks : Raced(t, u) => call[t].postedOn # call[u].postedOn

\* C10, amended: concurrent generate_text calls on a fresh instance create
\* one session between them: the one that runs first creates it, and every
\* call posts on it.
C10_ConcurrentCallsShareOneSession ==
    /\ Len(sessions) <= 1
    /\ \A t, u \in Tasks : Raced(t, u) => call[t].postedOn = call[u].postedOn

\* Two calls scheduled before a session exists are both suspended in their
\* POST.
C10_Witness ==
    /\ Raced(1, 2)
    /\ call[1].pc = "awaitingResponse"
    /\ call[2].pc = "awaitingResponse"
====
